---- MODULE Spec2Model ----
(***************************************************************************)
(* splitrc: a split reference count.  One heap record (Inner) holds the    *)
(* payload and a packed atomic counter (SplitCount); Tx and Rx handles     *)
(* clone and drop against the counter.  The model follows src/src/lib.rs:  *)
(* every atomic read-modify-write on the counter is one step, and the      *)
(* steps of a drop that lie between two atomic operations (the callback,   *)
(* the deallocation) are steps of their own, so that threads interleave    *)
(* exactly where the code lets them.                                       *)
(***************************************************************************)
EXTENDS Integers, Naturals, FiniteSets, Sequences, TLC

\* ---- bounds of the model ----
NThreads == 3
MaxClones == 2
OvSlack == 2

Threads == 1..NThreads

\* ---- the packed encoding (lib.rs 65-91) ----
\* The 64-bit word is kept as its three fields; the word arithmetic below
\* carries and borrows between the fields as the u64 arithmetic does.
TX_MASK == 2147483647
RX_MASK == 2147483647
DC_MASK == 3

RC_INIT == [tx |-> 1, rx |-> 1, dc |-> 0]

tx_count(c) == c.tx

rx_count(c) == c.rx

drop_count(c) == c.dc

\* c + TX_INC, wrapping at 2^64
AddTxInc(c) == [c EXCEPT !.tx = IF c.tx = TX_MASK THEN 0 ELSE c.tx + 1]

\* SubTxInc with the wrong increment constant: RX_INC subtracted where
\* TX_INC is meant
SubTxInc_WrongField(c) ==
    IF c.rx = 0
    THEN [c EXCEPT !.rx = RX_MASK, !.tx = IF c.tx = 0 THEN TX_MASK ELSE c.tx - 1]
    ELSE [c EXCEPT !.rx = c.rx - 1]

\* c - TX_INC, wrapping at 2^64
SubTxInc(c) == [c EXCEPT !.tx = IF c.tx = 0 THEN TX_MASK ELSE c.tx - 1]

\* AddRxInc with the wrong increment constant: TX_INC added where RX_INC
\* is meant
AddRxInc_WrongField(c) ==
    [c EXCEPT !.tx = IF c.tx = TX_MASK THEN 0 ELSE c.tx + 1]

\* c + RX_INC: a full rx field carries into the tx field
AddRxInc(c) ==
    IF c.rx = RX_MASK THEN AddTxInc([c EXCEPT !.rx = 0])
    ELSE [c EXCEPT !.rx = c.rx + 1]

\* SubRxInc with the wrong increment constant: TX_INC subtracted where
\* RX_INC is meant
SubRxInc_WrongField(c) ==
    [c EXCEPT !.tx = IF c.tx = 0 THEN TX_MASK ELSE c.tx - 1]

\* c - RX_INC: an empty rx field borrows from the tx field
SubRxInc(c) ==
    IF c.rx = 0 THEN SubTxInc([c EXCEPT !.rx = RX_MASK])
    ELSE [c EXCEPT !.rx = c.rx - 1]

\* c + DC_INC: a full drop count carries into the rx field
AddDcInc(c) ==
    IF c.dc = DC_MASK THEN AddRxInc([c EXCEPT !.dc = 0])
    ELSE [c EXCEPT !.dc = c.dc + 1]

OVERFLOW_PANIC == 1073741824

\* OVERFLOW_ABORT = u32::MAX - (1 << 16) = 65534 * 65536 + 65535, kept as
\* its two 16-bit halves
OVERFLOW_ABORT_HI == 65534
OVERFLOW_ABORT_LO == 65535

\* n >= OVERFLOW_ABORT, for a count n
AtLeastOverflowAbort(n) ==
    \/ n \div 65536 > OVERFLOW_ABORT_HI
    \/ (n \div 65536 = OVERFLOW_ABORT_HI /\ n % 65536 >= OVERFLOW_ABORT_LO)

\* ---- SplitCount ----

\* inc_tx comparing with OVERFLOW_ABORT where OVERFLOW_PANIC is meant
inc_tx_WrongThreshold(old) ==
    [next |-> AddTxInc(old), overflow |-> AtLeastOverflowAbort(tx_count(old))]

\* inc_tx applied to the value `old` that fetch_add replaces: the new
\* value, and whether inc_tx_overflow is called
inc_tx(old) ==
    [next |-> AddTxInc(old), overflow |-> ~(tx_count(old) < OVERFLOW_PANIC)]

\* inc_tx_overflow on the value `old`: abort, or undo and panic
inc_tx_overflow(old) ==
    IF AtLeastOverflowAbort(tx_count(old)) THEN "abort" ELSE "panic"

\* inc_rx testing the count after the add where the count before is meant
inc_rx_PostValue(old) ==
    [next |-> AddRxInc(old),
     overflow |-> ~(rx_count(AddRxInc(old)) < OVERFLOW_PANIC)]

\* inc_rx applied to the value `old` that fetch_add replaces
inc_rx(old) ==
    [next |-> AddRxInc(old), overflow |-> ~(rx_count(old) < OVERFLOW_PANIC)]

\* inc_rx_overflow on the value `old`: abort, or undo and panic
inc_rx_overflow(old) ==
    IF AtLeastOverflowAbort(rx_count(old)) THEN "abort" ELSE "panic"

\* dec_tx with the two outcomes of the drop-count test exchanged
dec_tx_Swapped(current, action) ==
    LET c1 == SubTxInc(current) IN
    IF tx_count(c1) = 0
    THEN IF rx_count(c1) = 0
         THEN LET c2 == AddDcInc(c1) IN
              [next |-> c2,
               action |-> IF drop_count(c2) = 1 THEN "Drop" ELSE "Nothing"]
         ELSE [next |-> c1, action |-> "Notify"]
    ELSE [next |-> c1, action |-> action]

\* dec_tx without the drop-count test: the second kind to be exhausted
\* always deallocates
dec_tx_NoDropCountTest(current, action) ==
    LET c1 == SubTxInc(current) IN
    IF tx_count(c1) = 0
    THEN IF rx_count(c1) = 0
         THEN [next |-> AddDcInc(c1), action |-> "Drop"]
         ELSE [next |-> c1, action |-> "Notify"]
    ELSE [next |-> c1, action |-> action]

\* dec_tx that notifies whenever its own count reaches zero
dec_tx_AlwaysNotify(current, action) ==
    LET c1 == SubTxInc(current) IN
    IF tx_count(c1) = 0
    THEN [next |-> c1, action |-> "Notify"]
    ELSE [next |-> c1, action |-> action]

\* dec_tx with `current += DC_INC` hoisted out of the test of rx_count
dec_tx_BumpsOnNotify(current, action) ==
    LET c1 == SubTxInc(current) IN
    IF tx_count(c1) = 0
    THEN LET c2 == AddDcInc(c1) IN
         IF rx_count(c1) = 0
         THEN [next |-> c2,
               action |-> IF drop_count(c2) = 1 THEN "Nothing" ELSE "Drop"]
         ELSE [next |-> c2, action |-> "Notify"]
    ELSE [next |-> c1, action |-> action]

\* dec_tx that leaves `action` as it is where it should assign Nothing
dec_tx_KeepsStale(current, action) ==
    LET c1 == SubTxInc(current) IN
    IF tx_count(c1) = 0
    THEN IF rx_count(c1) = 0
         THEN LET c2 == AddDcInc(c1) IN
              [next |-> c2,
               action |-> IF drop_count(c2) = 1 THEN action ELSE "Drop"]
         ELSE [next |-> c1, action |-> "Notify"]
    ELSE [next |-> c1, action |-> action]

\* The closure of dec_tx's fetch_update, applied to the value `current`
\* with the captured variable `action` as it stands: the candidate new
\* value and the captured variable after the call.
dec_tx(current, action) ==
    LET c1 == SubTxInc(current) IN
    IF tx_count(c1) = 0
    THEN IF rx_count(c1) = 0
         THEN LET c2 == AddDcInc(c1) IN
              [next |-> c2,
               action |-> IF drop_count(c2) = 1 THEN "Nothing" ELSE "Drop"]
         ELSE [next |-> c1, action |-> "Notify"]
    ELSE [next |-> c1, action |-> action]

\* dec_rx with the two outcomes of the drop-count test exchanged
dec_rx_Swapped(current, action) ==
    LET c1 == SubRxInc(current) IN
    IF rx_count(c1) = 0
    THEN IF tx_count(c1) = 0
         THEN LET c2 == AddDcInc(c1) IN
              [next |-> c2,
               action |-> IF drop_count(c2) = 1 THEN "Drop" ELSE "Nothing"]
         ELSE [next |-> c1, action |-> "Notify"]
    ELSE [next |-> c1, action |-> action]

\* dec_rx testing its own count where the other kind's count is meant
dec_rx_OwnCountTwice(current, action) ==
    LET c1 == SubRxInc(current) IN
    IF rx_count(c1) = 0
    THEN IF rx_count(c1) = 0
         THEN LET c2 == AddDcInc(c1) IN
              [next |-> c2,
               action |-> IF drop_count(c2) = 1 THEN "Nothing" ELSE "Drop"]
         ELSE [next |-> c1, action |-> "Notify"]
    ELSE [next |-> c1, action |-> action]

\* dec_rx that notifies whenever its own count reaches zero
dec_rx_AlwaysNotify(current, action) ==
    LET c1 == SubRxInc(current) IN
    IF rx_count(c1) = 0
    THEN [next |-> c1, action |-> "Notify"]
    ELSE [next |-> c1, action |-> action]

\* dec_rx with `current += DC_INC` hoisted out of the test of tx_count
dec_rx_BumpsOnNotify(current, action) ==
    LET c1 == SubRxInc(current) IN
    IF rx_count(c1) = 0
    THEN LET c2 == AddDcInc(c1) IN
         IF tx_count(c1) = 0
         THEN [next |-> c2,
               action |-> IF drop_count(c2) = 1 THEN "Nothing" ELSE "Drop"]
         ELSE [next |-> c2, action |-> "Notify"]
    ELSE [next |-> c1, action |-> action]

\* The closure of dec_rx's fetch_update.
dec_rx(current, action) ==
    LET c1 == SubRxInc(current) IN
    IF rx_count(c1) = 0
    THEN IF tx_count(c1) = 0
         THEN LET c2 == AddDcInc(c1) IN
              [next |-> c2,
               action |-> IF drop_count(c2) = 1 THEN "Nothing" ELSE "Drop"]
         ELSE [next |-> c1, action |-> "Notify"]
    ELSE [next |-> c1, action |-> action]

\* inc_drop_count that tells every caller to deallocate
inc_drop_count_AlwaysTrue(old) ==
    [next |-> AddDcInc(old), dealloc |-> TRUE]

\* inc_drop_count that tells no caller to deallocate
inc_drop_count_AlwaysFalse(old) ==
    [next |-> AddDcInc(old), dealloc |-> FALSE]

\* inc_drop_count comparing the old word with 0 where 1 is meant
inc_drop_count_TestsZero(old) ==
    [next |-> AddDcInc(old),
     dealloc |-> old = [tx |-> 0, rx |-> 0, dc |-> 0]]

\* inc_drop_count applied to the value `old` that fetch_add replaces: the
\* new value and the returned flag (the whole old word compared with 1).
inc_drop_count(old) ==
    [next |-> AddDcInc(old),
     dealloc |-> old = [tx |-> 0, rx |-> 0, dc |-> 1]]

\* ---- Notify (lib.rs 29-63) and the payload types of the tests ----
\* TrackNotify implements last_tx_did_drop and last_rx_did_drop and keeps
\* the default pinned callbacks; MustPin implements the pinned callbacks
\* themselves and keeps the default (empty) ordinary ones.
Payloads == {"TrackNotify", "MustPin"}

\* A default pinned callback that does not pass the call on
last_tx_did_drop_pinned_Silent(data, calls) ==
    calls

\* last_tx_did_drop_pinned, as the payload type data implements it, on the
\* record `calls` of the ordinary callbacks invoked so far: the default
\* is self.get_ref().last_tx_did_drop()
last_tx_did_drop_pinned(data, calls) ==
    IF data = "MustPin" THEN calls
    ELSE [calls EXCEPT !.tx = @ + 1]

\* last_rx_did_drop_pinned: the default is
\* self.get_ref().last_rx_did_drop()
last_rx_did_drop_pinned(data, calls) ==
    IF data = "MustPin" THEN calls
    ELSE [calls EXCEPT !.rx = @ + 1]

\* ---- the entry points (lib.rs 424-452) ----
\* new(data): the record is allocated with SplitCount::new() and one Tx
\* and one Rx point at it
new(data) ==
    [count |-> RC_INIT, data |-> data, tx |-> 1, rx |-> 1, pinned |-> FALSE]

\* pin(data): the pair new(data) returns, each handle wrapped in Pin
pin(data) ==
    LET r == new(data) IN
    [r EXCEPT !.pinned = TRUE]

\* ---- state ----
VARIABLES
    count,      \* Inner.count: the packed atomic word
    pc,         \* per thread: where it stands inside clone or drop
    held,       \* per thread: the Tx and Rx handles it owns
    prev,       \* per thread: the value fetch_update last loaded
    action,     \* per thread: the `action` local of dec_tx / dec_rx
    notified,   \* how often each callback has been invoked
    freed,      \* how often deallocate has run on the record
    clones,     \* clone calls made so far
    raced,      \* a last-Tx drop and a last-Rx drop were in flight together
    forgotten,  \* handles given to mem::forget: counted, never dropped
    pinned,     \* the handles came from pin(): they are Pin<Tx>, Pin<Rx>
    payload,    \* the payload type T and with it its impl of Notify
    ordinary    \* how often last_tx_did_drop / last_rx_did_drop has run

vars == <<count, pc, held, prev, action, notified, freed, clones, raced,
          forgotten, pinned, payload, ordinary>>

\* Positions of a thread.
\*   idle       between operations
\*   dec_tx     in Tx::drop, fetch_update has loaded `prev`, CAS pending
\*   tx_call    dec_tx returned Notify, callback not yet entered
\*   tx_notify  inside last_tx_did_drop_pinned
\*   dealloc    about to run deallocate
\*   inc_tx_overflow  in Tx::clone, fetch_add done, inc_tx_overflow pending
\*   tx_panic   Tx::clone is unwinding with "tx count overflow"
\*   aborted    abort() was called
\*   (and the same for rx)
InCallback == {"tx_notify", "rx_notify"}
Touching == {"dec_tx", "dec_rx", "tx_call", "rx_call", "tx_notify", "rx_notify"}

\* new(): one Tx and one Rx, both owned by the creating thread
Init ==
    /\ count = RC_INIT
    /\ pc = [t \in Threads |-> "idle"]
    /\ held = [t \in Threads |-> IF t = 1 THEN [tx |-> 1, rx |-> 1]
                                          ELSE [tx |-> 0, rx |-> 0]]
    /\ prev = [t \in Threads |-> RC_INIT]
    /\ action = [t \in Threads |-> "Nothing"]
    /\ notified = [tx |-> 0, rx |-> 0]
    /\ freed = 0
    /\ clones = 0
    /\ raced = FALSE
    /\ forgotten = [tx |-> 0, rx |-> 0]
    /\ pinned = FALSE
    /\ payload = "TrackNotify"
    /\ ordinary = [tx |-> 0, rx |-> 0]

\* thread::spawn(move || ...): the creating thread hands a handle over
Spawn(u, k) ==
    /\ u # 1
    /\ pc[1] = "idle"
    /\ held[1][k] > 0
    /\ held' = [held EXCEPT ![1][k] = @ - 1, ![u][k] = @ + 1]
    /\ UNCHANGED <<count, pc, prev, action, notified, freed, clones, raced, forgotten,
                   pinned, payload, ordinary>>

\* Tx::clone that needs no existing Tx handle to clone from
CloneTx_WithoutHandle(t) ==
    /\ pc[t] = "idle"
    /\ clones < MaxClones
    /\ count' = inc_tx(count).next
    /\ clones' = clones + 1
    /\ IF ~inc_tx(count).overflow
       THEN /\ held' = [held EXCEPT ![t].tx = @ + 1]
            /\ UNCHANGED <<pc, prev>>
       ELSE /\ held' = held
            /\ prev' = [prev EXCEPT ![t] = count]
            /\ pc' = [pc EXCEPT ![t] = "inc_tx_overflow"]
    /\ UNCHANGED <<action, notified, freed, raced, forgotten,
                   pinned, payload, ordinary>>

\* Tx::clone: inc_tx is one fetch_add; the new handle exists when the old
\* count was below OVERFLOW_PANIC, otherwise inc_tx_overflow takes over
\* with `old`.
CloneTx(t) ==
    /\ pc[t] = "idle"
    /\ held[t].tx > 0
    /\ clones < MaxClones
    /\ count' = inc_tx(count).next
    /\ clones' = clones + 1
    /\ IF ~inc_tx(count).overflow
       THEN /\ held' = [held EXCEPT ![t].tx = @ + 1]
            /\ UNCHANGED <<pc, prev>>
       ELSE /\ held' = held
            /\ prev' = [prev EXCEPT ![t] = count]
            /\ pc' = [pc EXCEPT ![t] = "inc_tx_overflow"]
    /\ UNCHANGED <<action, notified, freed, raced, forgotten,
                   pinned, payload, ordinary>>

\* Rx::clone
CloneRx(t) ==
    /\ pc[t] = "idle"
    /\ held[t].rx > 0
    /\ clones < MaxClones
    /\ count' = inc_rx(count).next
    /\ clones' = clones + 1
    /\ IF ~inc_rx(count).overflow
       THEN /\ held' = [held EXCEPT ![t].rx = @ + 1]
            /\ UNCHANGED <<pc, prev>>
       ELSE /\ held' = held
            /\ prev' = [prev EXCEPT ![t] = count]
            /\ pc' = [pc EXCEPT ![t] = "inc_rx_overflow"]
    /\ UNCHANGED <<action, notified, freed, raced, forgotten,
                   pinned, payload, ordinary>>

\* mem::forget(tx.clone()): the clone is counted and never dropped.  The
\* model follows forgetting once the count is within OvSlack of
\* OVERFLOW_PANIC.
ForgetCloneTx(t) ==
    /\ pc[t] = "idle"
    /\ held[t].tx > 0
    /\ tx_count(count) >= OVERFLOW_PANIC - OvSlack
    /\ count' = inc_tx(count).next
    /\ IF ~inc_tx(count).overflow
       THEN /\ forgotten' = [forgotten EXCEPT !.tx = @ + 1]
            /\ UNCHANGED <<pc, prev>>
       ELSE /\ forgotten' = forgotten
            /\ prev' = [prev EXCEPT ![t] = count]
            /\ pc' = [pc EXCEPT ![t] = "inc_tx_overflow"]
    /\ UNCHANGED <<held, action, notified, freed, clones, raced,
                   pinned, payload, ordinary>>

\* mem::forget(rx.clone())
ForgetCloneRx(t) ==
    /\ pc[t] = "idle"
    /\ held[t].rx > 0
    /\ rx_count(count) >= OVERFLOW_PANIC - OvSlack
    /\ count' = inc_rx(count).next
    /\ IF ~inc_rx(count).overflow
       THEN /\ forgotten' = [forgotten EXCEPT !.rx = @ + 1]
            /\ UNCHANGED <<pc, prev>>
       ELSE /\ forgotten' = forgotten
            /\ prev' = [prev EXCEPT ![t] = count]
            /\ pc' = [pc EXCEPT ![t] = "inc_rx_overflow"]
    /\ UNCHANGED <<held, action, notified, freed, clones, raced,
                   pinned, payload, ordinary>>

\* inc_tx_overflow: abort, or fetch_sub(TX_INC) and panic
IncTxOverflow(t) ==
    /\ pc[t] = "inc_tx_overflow"
    /\ IF inc_tx_overflow(prev[t]) = "abort"
       THEN /\ pc' = [pc EXCEPT ![t] = "aborted"]
            /\ count' = count
       ELSE /\ pc' = [pc EXCEPT ![t] = "tx_panic"]
            /\ count' = SubTxInc(count)
    /\ prev' = [prev EXCEPT ![t] = RC_INIT]
    /\ UNCHANGED <<held, action, notified, freed, clones, raced, forgotten,
                   pinned, payload, ordinary>>

\* inc_rx_overflow: abort, or fetch_sub(RX_INC) and panic
IncRxOverflow(t) ==
    /\ pc[t] = "inc_rx_overflow"
    /\ IF inc_rx_overflow(prev[t]) = "abort"
       THEN /\ pc' = [pc EXCEPT ![t] = "aborted"]
            /\ count' = count
       ELSE /\ pc' = [pc EXCEPT ![t] = "rx_panic"]
            /\ count' = SubRxInc(count)
    /\ prev' = [prev EXCEPT ![t] = RC_INIT]
    /\ UNCHANGED <<held, action, notified, freed, clones, raced, forgotten,
                   pinned, payload, ordinary>>

\* panic::catch_unwind returns Err: the thread carries on
CatchUnwind(t) ==
    /\ pc[t] \in {"tx_panic", "rx_panic"}
    /\ pc' = [pc EXCEPT ![t] = "idle"]
    /\ UNCHANGED <<count, held, prev, action, notified, freed, clones, raced,
                   forgotten, pinned, payload, ordinary>>

\* Tx::drop begins: the handle is given up, dec_tx sets action to Nothing
\* and fetch_update loads the counter.
DropTx(t) ==
    /\ pc[t] = "idle"
    /\ held[t].tx > 0
    /\ held' = [held EXCEPT ![t].tx = @ - 1]
    /\ prev' = [prev EXCEPT ![t] = count]
    /\ action' = [action EXCEPT ![t] = "Nothing"]
    /\ pc' = [pc EXCEPT ![t] = "dec_tx"]
    /\ raced' = (raced \/ (tx_count(count) = 1 /\ rx_count(count) = 1
                           /\ \E u \in Threads : pc[u] = "dec_rx"))
    /\ UNCHANGED <<count, notified, freed, clones, forgotten,
                   pinned, payload, ordinary>>

\* Rx::drop begins
DropRx(t) ==
    /\ pc[t] = "idle"
    /\ held[t].rx > 0
    /\ held' = [held EXCEPT ![t].rx = @ - 1]
    /\ prev' = [prev EXCEPT ![t] = count]
    /\ action' = [action EXCEPT ![t] = "Nothing"]
    /\ pc' = [pc EXCEPT ![t] = "dec_rx"]
    /\ raced' = (raced \/ (tx_count(count) = 1 /\ rx_count(count) = 1
                           /\ \E u \in Threads : pc[u] = "dec_tx"))
    /\ UNCHANGED <<count, notified, freed, clones, forgotten,
                   pinned, payload, ordinary>>

\* Tx::drop whose Notify arm does nothing
TxMatch_NotifyIgnored(a) ==
    CASE a = "Nothing" -> "idle"
      [] a = "Notify" -> "idle"
      [] a = "Drop" -> "dealloc"

\* Where Tx::drop goes on the action dec_tx returned
TxMatch(a) ==
    CASE a = "Nothing" -> "idle"
      [] a = "Notify" -> "tx_call"
      [] a = "Drop" -> "dealloc"

\* Where Rx::drop goes on the action dec_rx returned
RxMatch(a) ==
    CASE a = "Nothing" -> "idle"
      [] a = "Notify" -> "rx_call"
      [] a = "Drop" -> "dealloc"

\* One round of dec_tx's fetch_update: the closure runs on prev, then the
\* compare-exchange either installs its result or reloads prev.  When it
\* succeeds fetch_update returns and prev goes out of scope (kept here at
\* a fixed value).
DecTx(t) ==
    /\ pc[t] = "dec_tx"
    /\ LET r == dec_tx(prev[t], action[t]) IN
       /\ action' = [action EXCEPT ![t] = r.action]
       /\ IF count = prev[t]
          THEN /\ count' = r.next
               /\ pc' = [pc EXCEPT ![t] = TxMatch(r.action)]
               /\ prev' = [prev EXCEPT ![t] = RC_INIT]
          ELSE /\ prev' = [prev EXCEPT ![t] = count]
               /\ UNCHANGED <<count, pc>>
    /\ UNCHANGED <<held, notified, freed, clones, raced, forgotten,
                   pinned, payload, ordinary>>

\* One round of dec_rx's fetch_update
DecRx(t) ==
    /\ pc[t] = "dec_rx"
    /\ LET r == dec_rx(prev[t], action[t]) IN
       /\ action' = [action EXCEPT ![t] = r.action]
       /\ IF count = prev[t]
          THEN /\ count' = r.next
               /\ pc' = [pc EXCEPT ![t] = RxMatch(r.action)]
               /\ prev' = [prev EXCEPT ![t] = RC_INIT]
          ELSE /\ prev' = [prev EXCEPT ![t] = count]
               /\ UNCHANGED <<count, pc>>
    /\ UNCHANGED <<held, notified, freed, clones, raced, forgotten,
                   pinned, payload, ordinary>>

\* Tx::drop, Notify arm: last_tx_did_drop_pinned is entered, on a pinned
\* reference to the payload whichever way the handle was made
CallTx(t) ==
    /\ pc[t] = "tx_call"
    /\ notified' = [notified EXCEPT !.tx = @ + 1]
    /\ ordinary' = last_tx_did_drop_pinned(payload, ordinary)
    /\ pc' = [pc EXCEPT ![t] = "tx_notify"]
    /\ UNCHANGED <<count, held, prev, action, freed, clones, raced, forgotten,
                   pinned, payload>>

\* Rx::drop, Notify arm: last_rx_did_drop_pinned is entered
CallRx(t) ==
    /\ pc[t] = "rx_call"
    /\ notified' = [notified EXCEPT !.rx = @ + 1]
    /\ ordinary' = last_rx_did_drop_pinned(payload, ordinary)
    /\ pc' = [pc EXCEPT ![t] = "rx_notify"]
    /\ UNCHANGED <<count, held, prev, action, freed, clones, raced, forgotten,
                   pinned, payload>>

\* Tx::drop, Notify arm: the callback returns and inc_drop_count runs
ReturnTx(t) ==
    /\ pc[t] = "tx_notify"
    /\ LET r == inc_drop_count(count) IN
       /\ count' = r.next
       /\ pc' = [pc EXCEPT ![t] = IF r.dealloc THEN "dealloc" ELSE "idle"]
    /\ UNCHANGED <<held, prev, action, notified, freed, clones, raced, forgotten,
                   pinned, payload, ordinary>>

\* Rx::drop, Notify arm: the callback returns and inc_drop_count runs
ReturnRx(t) ==
    /\ pc[t] = "rx_notify"
    /\ LET r == inc_drop_count(count) IN
       /\ count' = r.next
       /\ pc' = [pc EXCEPT ![t] = IF r.dealloc THEN "dealloc" ELSE "idle"]
    /\ UNCHANGED <<held, prev, action, notified, freed, clones, raced, forgotten,
                   pinned, payload, ordinary>>

\* deallocate(ptr)
Deallocate(t) ==
    /\ pc[t] = "dealloc"
    /\ freed' = freed + 1
    /\ pc' = [pc EXCEPT ![t] = "idle"]
    /\ UNCHANGED <<count, held, prev, action, notified, clones, raced, forgotten,
                   pinned, payload, ordinary>>

Next ==
    \/ \E u \in Threads, k \in {"tx", "rx"} : Spawn(u, k)
    \/ \E t \in Threads : CloneTx(t)
    \/ \E t \in Threads : CloneRx(t)
    \/ \E t \in Threads : DropTx(t)
    \/ \E t \in Threads : DropRx(t)
    \/ \E t \in Threads : DecTx(t)
    \/ \E t \in Threads : DecRx(t)
    \/ \E t \in Threads : CallTx(t)
    \/ \E t \in Threads : CallRx(t)
    \/ \E t \in Threads : ReturnTx(t)
    \/ \E t \in Threads : ReturnRx(t)
    \/ \E t \in Threads : Deallocate(t)

Spec == Init /\ [][Next]_vars

\* The state after 2^30 - OvSlack clones of a kind were forgotten
\* (tx_panic_on_overflow, rx_panic_on_overflow): the creating thread owns
\* the original pair, the counter stands just below OVERFLOW_PANIC.
OvStart == {1, OVERFLOW_PANIC - OvSlack}

OvInit ==
    /\ \E a \in OvStart, b \in OvStart :
          /\ count = [tx |-> a, rx |-> b, dc |-> 0]
          /\ forgotten = [tx |-> a - 1, rx |-> b - 1]
    /\ pc = [t \in Threads |-> "idle"]
    /\ held = [t \in Threads |-> IF t = 1 THEN [tx |-> 1, rx |-> 1]
                                          ELSE [tx |-> 0, rx |-> 0]]
    /\ prev = [t \in Threads |-> RC_INIT]
    /\ action = [t \in Threads |-> "Nothing"]
    /\ notified = [tx |-> 0, rx |-> 0]
    /\ freed = 0
    /\ clones = 0
    /\ raced = FALSE
    /\ pinned = FALSE
    /\ payload = "TrackNotify"
    /\ ordinary = [tx |-> 0, rx |-> 0]

OvNext ==
    \/ \E u \in Threads, k \in {"tx", "rx"} : Spawn(u, k)
    \/ \E t \in Threads : ForgetCloneTx(t)
    \/ \E t \in Threads : ForgetCloneRx(t)
    \/ \E t \in Threads : IncTxOverflow(t)
    \/ \E t \in Threads : IncRxOverflow(t)
    \/ \E t \in Threads : CatchUnwind(t)
    \/ \E t \in Threads : DropTx(t)
    \/ \E t \in Threads : DropRx(t)
    \/ \E t \in Threads : DecTx(t)
    \/ \E t \in Threads : DecRx(t)
    \/ \E t \in Threads : CallTx(t)
    \/ \E t \in Threads : CallRx(t)
    \/ \E t \in Threads : ReturnTx(t)
    \/ \E t \in Threads : ReturnRx(t)
    \/ \E t \in Threads : Deallocate(t)

SpecOverflow == OvInit /\ [][OvNext]_vars

\* The state after new(data) or pin(data), for either payload type: the
\* creating thread owns the pair the entry point returned.
PinInit ==
    /\ \E data \in Payloads :
          \E r \in {new(data), pin(data)} :
             /\ count = r.count
             /\ held = [t \in Threads |-> IF t = 1 THEN [tx |-> r.tx, rx |-> r.rx]
                                                   ELSE [tx |-> 0, rx |-> 0]]
             /\ pinned = r.pinned
             /\ payload = r.data
    /\ pc = [t \in Threads |-> "idle"]
    /\ prev = [t \in Threads |-> RC_INIT]
    /\ action = [t \in Threads |-> "Nothing"]
    /\ notified = [tx |-> 0, rx |-> 0]
    /\ freed = 0
    /\ clones = 0
    /\ raced = FALSE
    /\ forgotten = [tx |-> 0, rx |-> 0]
    /\ ordinary = [tx |-> 0, rx |-> 0]

\* Pin<Tx<T>> and Pin<Rx<T>> clone and drop through Tx and Rx: the steps
\* are those of Next.
SpecPin == PinInit /\ [][Next]_vars

\* A drop, once begun, runs to its end; whether a handle is ever dropped is
\* up to its owner.
Progress(t) ==
    DecTx(t) \/ DecRx(t) \/ CallTx(t) \/ CallRx(t)
    \/ ReturnTx(t) \/ ReturnRx(t) \/ Deallocate(t)

FairSpec == Spec /\ \A t \in Threads : WF_vars(Progress(t))

\* ---- vocabulary of the properties ----
TotalTx == LET S[n \in 0..NThreads] ==
                   IF n = 0 THEN 0 ELSE S[n - 1] + held[n].tx
           IN S[NThreads]

TotalRx == LET S[n \in 0..NThreads] ==
                   IF n = 0 THEN 0 ELSE S[n - 1] + held[n].rx
           IN S[NThreads]

AllIdle == \A t \in Threads : pc[t] = "idle"

AllDropped == AllIdle /\ TotalTx = 0 /\ TotalRx = 0

\* ---- lifetime of the record ----

\* C1: in every interleaving of clones and drops, the record is not
\* deallocated while any handle of either kind is still owned, nor while a
\* drop that has yet to read the counter or the payload is under way.
C1_NoFreeWhileHandleLive ==
    freed > 0 => /\ TotalTx = 0
                 /\ TotalRx = 0
                 /\ \A t \in Threads : pc[t] \notin Touching

\* C1 witness: the record has been deallocated after clones were made and
\* every handle, the clones included, was dropped.
C1_Witness == freed = 1 /\ clones >= 2 /\ AllDropped

\* C2: deallocate runs at most once on the record.
C2_AtMostOneFree == freed <= 1

\* C2 witness: the last Tx and the last Rx were dropped concurrently and
\* the record has been deallocated.
C2_Witness == raced /\ freed = 1

\* C3: once every handle has been given up the record is eventually
\* deallocated, and no run ends with all drops complete and the record
\* still allocated.
C3_NoLeak ==
    /\ [](AllDropped => freed >= 1)
    /\ ((TotalTx = 0 /\ TotalRx = 0) ~> (freed >= 1))

\* C3 witness: all drops are complete and the record is deallocated.
C3_Witness == AllDropped /\ freed = 1 /\ notified.rx = 1

\* ---- notification ----

\* C4: when all handles have been dropped, exactly one of the two callbacks
\* has been invoked, and it has been invoked exactly once.
C4_ExactlyOneCallback ==
    /\ notified.tx + notified.rx <= 1
    /\ AllDropped => notified.tx + notified.rx = 1

\* C4 witness: clones were made, every handle was dropped, and one callback
\* was invoked.
C4_Witness == AllDropped /\ clones >= 2 /\ notified.tx = 1 /\ notified.rx = 0

\* The step in which thread t's decrement of kind k takes effect
TxDecrements(t) == pc[t] = "dec_tx" /\ pc'[t] # "dec_tx"

RxDecrements(t) == pc[t] = "dec_rx" /\ pc'[t] # "dec_rx"

\* C5: a Tx drop that brings the write count to zero while the read count
\* is positive goes on to invoke the last-Tx-dropped callback, exactly
\* once, and the last-Rx-dropped callback has not been invoked then; the
\* same with Tx and Rx exchanged.
C5_LastOfKindNotifies ==
    /\ [][\A t \in Threads :
            /\ (TxDecrements(t) /\ tx_count(count') = 0 /\ rx_count(count') > 0)
               => (pc'[t] = "tx_call" /\ notified = [tx |-> 0, rx |-> 0])
            /\ (RxDecrements(t) /\ rx_count(count') = 0 /\ tx_count(count') > 0)
               => (pc'[t] = "rx_call" /\ notified = [tx |-> 0, rx |-> 0])
         ]_vars
    /\ [](\A t \in Threads :
            /\ pc[t] = "tx_notify" => notified = [tx |-> 1, rx |-> 0]
            /\ pc[t] = "rx_notify" => notified = [tx |-> 0, rx |-> 1])
    /\ [](notified.tx <= 1 /\ notified.rx <= 1)
    /\ (\E t \in Threads : pc[t] = "tx_call") ~> (notified.tx = 1)
    /\ (\E t \in Threads : pc[t] = "rx_call") ~> (notified.rx = 1)

\* C5 witness: the last Tx was dropped with an Rx still owned and its
\* callback is running.
C5_Witness ==
    \E t \in Threads : pc[t] = "tx_notify" /\ TotalRx >= 1 /\ clones >= 1

\* C6 as stated: after concurrent drops of the last Tx and the last Rx both
\* callbacks have been invoked, each once, and the record was deallocated
\* once.
C6_BothCallbacksFire ==
    (raced /\ AllDropped) =>
        (notified.tx = 1 /\ notified.rx = 1 /\ freed = 1)

\* C6 amended: after concurrent drops of the last Tx and the last Rx
\* exactly one of the callbacks has been invoked, once; the record is
\* deallocated exactly once, and only after that callback has returned.
C6_OneCallbackFires ==
    raced =>
        /\ notified.tx + notified.rx <= 1
        /\ freed <= 1
        /\ AllDropped => (notified.tx + notified.rx = 1 /\ freed = 1)
        /\ freed > 0 => /\ notified.tx + notified.rx = 1
                        /\ \A t \in Threads :
                              pc[t] \notin {"tx_call", "rx_call",
                                            "tx_notify", "rx_notify"}

\* C6 witness: the two last drops raced, both are complete, the record is
\* deallocated.
C6_Witness == raced /\ AllDropped /\ freed = 1

\* C7: while a callback is executing the record has not been deallocated.
C7_NoFreeDuringCallback ==
    \A t \in Threads : pc[t] \in InCallback => freed = 0

\* C7 witness: a callback is executing and every handle of the other kind
\* has meanwhile been dropped.
C7_Witness ==
    \E t \in Threads :
        /\ pc[t] = "tx_notify"
        /\ count = [tx |-> 0, rx |-> 0, dc |-> 1]
        /\ \A u \in Threads \ {t} : pc[u] = "idle"
        /\ freed = 0

\* C8 as stated: whenever the last-Tx-dropped callback is entered the read
\* count is positive, and whenever the last-Rx-dropped callback is entered
\* the write count is positive.
C8_OtherKindAliveAtCall ==
    [][\A t \in Threads :
          /\ (pc[t] = "tx_call" /\ pc'[t] = "tx_notify") => rx_count(count) > 0
          /\ (pc[t] = "rx_call" /\ pc'[t] = "rx_notify") => tx_count(count) > 0
      ]_vars

\* C9: a drop that brings its own kind's count to zero when the other
\* kind's count is already zero invokes no callback, so the callback of
\* the kind exhausted second is never invoked.
C9_SecondKindSilent ==
    /\ [][\A t \in Threads :
            /\ (TxDecrements(t) /\ tx_count(count) = 1 /\ rx_count(count) = 0)
               => (pc'[t] \in {"idle", "dealloc"} /\ notified.tx = 0)
            /\ (RxDecrements(t) /\ rx_count(count) = 1 /\ tx_count(count) = 0)
               => (pc'[t] \in {"idle", "dealloc"} /\ notified.rx = 0)
         ]_vars
    /\ [](notified.tx = 0 \/ notified.rx = 0)

\* C9 witness: new; drop Tx; drop Rx has run to the end: last-Tx-dropped
\* was invoked, last-Rx-dropped was not.
C9_Witness ==
    AllDropped /\ clones = 0 /\ freed = 1 /\ notified = [tx |-> 1, rx |-> 0]

\* C10: at rest, the counter, the callbacks invoked and the deallocation
\* are determined by the handles owned: cloning and dropping a handle any
\* number of times while a handle of its kind stays owned returns the
\* whole counter to its earlier value and invokes no callback and no
\* deallocation.
C10_CloneDropNeutral ==
    (AllIdle /\ (TotalTx >= 1 \/ TotalRx >= 1)) =>
        /\ count = [tx |-> TotalTx, rx |-> TotalRx,
                    dc |-> IF TotalTx = 0 \/ TotalRx = 0 THEN 1 ELSE 0]
        /\ notified = [tx |-> IF TotalTx = 0 THEN 1 ELSE 0,
                       rx |-> IF TotalRx = 0 THEN 1 ELSE 0]
        /\ freed = 0

\* C10 witness: after two rounds of clone and drop the original pair is
\* owned and the counter is back at its initial value.
C10_Witness ==
    /\ AllIdle /\ TotalTx = 1 /\ TotalRx = 1
    /\ clones >= 2 /\ count = RC_INIT

\* ---- overflow ----

\* Handles whose drop has begun and whose decrement has not yet taken
\* effect, and clones whose add is to be undone
InFlightTx == Cardinality({t \in Threads : pc[t] = "dec_tx"})

InFlightRx == Cardinality({t \in Threads : pc[t] = "dec_rx"})

TransientTx == Cardinality({t \in Threads : pc[t] = "inc_tx_overflow"})

TransientRx == Cardinality({t \in Threads : pc[t] = "inc_rx_overflow"})

\* Handles that exist: owned, forgotten, or in a drop that has not yet
\* decremented
LiveTx == TotalTx + forgotten.tx + InFlightTx

LiveRx == TotalRx + forgotten.rx + InFlightRx

\* C11: a thread that keeps cloning a handle without dropping the clones
\* gets the recoverable overflow panic, for Tx and for Rx; the sub-count
\* never passes OVERFLOW_PANIC by more than the clones under way, so it
\* neither wraps nor carries out of its field, and the overflow is never
\* the abort.
C11_OverflowBeforeWrap ==
    /\ [](/\ tx_count(count) <= OVERFLOW_PANIC + NThreads
          /\ rx_count(count) <= OVERFLOW_PANIC + NThreads
          /\ forgotten.tx > 0 => tx_count(count) >= 1
          /\ forgotten.rx > 0 => rx_count(count) >= 1
          /\ \A t \in Threads : pc[t] # "aborted")
    /\ \A t \in Threads :
          /\ []<><<ForgetCloneTx(t)>>_vars => <>(pc[t] = "tx_panic")
          /\ []<><<ForgetCloneRx(t)>>_vars => <>(pc[t] = "rx_panic")

\* C11 witness: clones were forgotten up to OVERFLOW_PANIC and the next
\* clone is unwinding with the overflow panic.
C11_Witness ==
    \E t \in Threads :
        /\ pc[t] = "tx_panic"
        /\ tx_count(count) = OVERFLOW_PANIC
        /\ forgotten.tx = OVERFLOW_PANIC - 1

\* C12: a clone that fails with the overflow panic leaves the counter as
\* it was before the attempt, creates no handle, and changes neither the
\* callbacks invoked nor the deallocation; the counter keeps counting the
\* handles that exist, and the drops of the remaining handles notify as
\* they do without the failed clone.
C12_FailedCloneUndone ==
    /\ [][\A t \in Threads :
            /\ (pc[t] = "inc_tx_overflow" /\ pc'[t] = "tx_panic"
                /\ count = AddTxInc(prev[t]))
               => (count' = prev[t] /\ held' = held /\ forgotten' = forgotten
                   /\ notified' = notified /\ freed' = freed)
            /\ (pc[t] = "inc_rx_overflow" /\ pc'[t] = "rx_panic"
                /\ count = AddRxInc(prev[t]))
               => (count' = prev[t] /\ held' = held /\ forgotten' = forgotten
                   /\ notified' = notified /\ freed' = freed)
         ]_vars
    /\ [](/\ tx_count(count) = LiveTx + TransientTx
          /\ rx_count(count) = LiveRx + TransientRx
          /\ notified.tx + notified.rx <= 1
          /\ freed <= 1)
    /\ [](AllIdle =>
            /\ (LiveTx = 0 /\ LiveRx > 0)
               => (notified = [tx |-> 1, rx |-> 0] /\ drop_count(count) = 1)
            /\ (LiveRx = 0 /\ LiveTx > 0)
               => (notified = [tx |-> 0, rx |-> 1] /\ drop_count(count) = 1)
            /\ (LiveTx = 0 /\ LiveRx = 0) => freed = 1)

\* C12 witness: a Tx clone has failed and is unwinding, the counter is
\* back at OVERFLOW_PANIC, and the last Rx drop has notified.
C12_Witness ==
    \E t \in Threads :
        /\ pc[t] = "tx_panic"
        /\ count = [tx |-> OVERFLOW_PANIC, rx |-> 0, dc |-> 1]
        /\ notified = [tx |-> 0, rx |-> 1]
        /\ held[t].tx = 1

\* The classification of a sub-count value n against the two thresholds
ClassOf(n) ==
    IF n < OVERFLOW_PANIC THEN "ok"
    ELSE IF AtLeastOverflowAbort(n) THEN "abort" ELSE "panic"

\* The step in which thread t's fetch_add of inc_tx / inc_rx takes effect
TxIncrements(t) ==
    /\ pc[t] = "idle"
    /\ count' = AddTxInc(count)
    /\ \/ pc'[t] = "inc_tx_overflow"
       \/ forgotten'.tx = forgotten.tx + 1
       \/ held'[t].tx = held[t].tx + 1

RxIncrements(t) ==
    /\ pc[t] = "idle"
    /\ count' = AddRxInc(count)
    /\ \/ pc'[t] = "inc_rx_overflow"
       \/ forgotten'.rx = forgotten.rx + 1
       \/ held'[t].rx = held[t].rx + 1

\* What an increment by thread t comes to, read off the state after its
\* fetch_add: it returned, or inc_tx_overflow will panic or abort
TxOutcome(t) ==
    IF pc[t] = "inc_tx_overflow" THEN inc_tx_overflow(prev[t]) ELSE "ok"

RxOutcome(t) ==
    IF pc[t] = "inc_rx_overflow" THEN inc_rx_overflow(prev[t]) ELSE "ok"

\* The step in which inc_tx_overflow / inc_rx_overflow acts as the
\* classification of `old` says
OverflowActs(t, kind, word) ==
    (pc[t] = word /\ pc'[t] # word) =>
        IF ClassOf(IF kind = "tx" THEN tx_count(prev[t])
                                  ELSE rx_count(prev[t])) = "abort"
        THEN pc'[t] = "aborted" /\ count' = count
        ELSE /\ pc'[t] = (IF kind = "tx" THEN "tx_panic" ELSE "rx_panic")
             /\ count' = (IF kind = "tx" THEN SubTxInc(count)
                                         ELSE SubRxInc(count))

\* C13 as stated: an increment is classified by the value of its sub-count
\* after the add.
C13_ClassifiedByPostValue ==
    [][\A t \in Threads :
          /\ TxIncrements(t) => TxOutcome(t)' = ClassOf(tx_count(count'))
          /\ RxIncrements(t) => RxOutcome(t)' = ClassOf(rx_count(count'))
      ]_vars

\* C13 amended: an increment is classified by the value of its sub-count
\* before the add: below OVERFLOW_PANIC it returns, from OVERFLOW_PANIC up
\* to OVERFLOW_ABORT it undoes the add and panics, from OVERFLOW_ABORT on
\* it aborts.
C13_ClassifiedByPreValue ==
    [][\A t \in Threads :
          /\ TxIncrements(t) => TxOutcome(t)' = ClassOf(tx_count(count))
          /\ RxIncrements(t) => RxOutcome(t)' = ClassOf(rx_count(count))
          /\ OverflowActs(t, "tx", "inc_tx_overflow")
          /\ OverflowActs(t, "rx", "inc_rx_overflow")
      ]_vars

\* C13 witness: an Rx clone found the count at OVERFLOW_PANIC and is on
\* its way to undo and panic.
C13_Witness ==
    \E t \in Threads :
        /\ pc[t] = "inc_rx_overflow"
        /\ rx_count(prev[t]) = OVERFLOW_PANIC
        /\ rx_count(count) = OVERFLOW_PANIC + 1

\* ---- the drop count ----

\* The thread that takes the step
Acts(t) == pc'[t] # pc[t]

\* C14: the thread whose own update moves the drop count from 1 to 2, be
\* it its decrement or its inc_drop_count after the callback, goes on to
\* deallocate, and both counts are zero then; no thread comes to
\* deallocate in another way, and the update that moves the drop count
\* from 0 to 1 does not lead to deallocate.
C14_SecondFinalizerDeallocates ==
    [][\A t \in Threads : Acts(t) =>
          /\ (drop_count(count) = 1 /\ drop_count(count') = 2)
             => (pc'[t] = "dealloc"
                 /\ tx_count(count') = 0 /\ rx_count(count') = 0)
          /\ (drop_count(count) = 0 /\ drop_count(count') = 1)
             => pc'[t] = "idle"
          /\ pc'[t] = "dealloc"
             => (drop_count(count) = 1 /\ drop_count(count') = 2)
      ]_vars

\* C14 witness: a thread is about to deallocate because its inc_drop_count
\* after the callback moved the drop count from 1 to 2.
C14_Witness ==
    \E t \in Threads :
        /\ pc[t] = "dealloc"
        /\ action[t] = "Notify"
        /\ drop_count(count) = 2

\* C15 as stated: a decrement that brings its own count to zero while the
\* other count is already zero leads the dropping thread to deallocate.
C15_BothZeroDeallocates ==
    [][\A t \in Threads :
          /\ (TxDecrements(t) /\ tx_count(count) = 1 /\ rx_count(count) = 0)
             => pc'[t] = "dealloc"
          /\ (RxDecrements(t) /\ rx_count(count) = 1 /\ tx_count(count) = 0)
             => pc'[t] = "dealloc"
      ]_vars

\* What a decrement to zero with the other count already zero comes to:
\* Drop and deallocate when the drop count was 1; Nothing when it was
\* 0, and then a thread of the other kind is between its decrement and its
\* inc_drop_count.
BothZeroOutcome(t, notifying) ==
    IF drop_count(count) = 1
    THEN action'[t] = "Drop" /\ pc'[t] = "dealloc"
    ELSE /\ drop_count(count) = 0
         /\ action'[t] = "Nothing" /\ pc'[t] = "idle"
         /\ \E u \in Threads \ {t} : pc[u] \in notifying

\* C15 amended: a decrement that brings its own count to zero while the
\* other count is already zero is Drop, and the dropping thread
\* deallocates, when the other kind has finished (drop count 1); when the
\* other kind is still notifying (drop count 0) it is Nothing and the
\* deallocation is left to the notifying thread.
C15_BothZeroDeallocatesOrDefers ==
    [][\A t \in Threads :
          /\ (TxDecrements(t) /\ tx_count(count) = 1 /\ rx_count(count) = 0)
             => BothZeroOutcome(t, {"rx_call", "rx_notify"})
          /\ (RxDecrements(t) /\ rx_count(count) = 1 /\ tx_count(count) = 0)
             => BothZeroOutcome(t, {"tx_call", "tx_notify"})
      ]_vars

\* C15 witness: a decrement returned Drop and the thread is about to
\* deallocate.
C15_Witness ==
    \E t \in Threads : pc[t] = "dealloc" /\ action[t] = "Drop"

\* C16: the drop count is 0, 1 or 2 in every state and each step leaves it
\* or adds one to it.
C16_DropCountRange ==
    /\ [](drop_count(count) \in {0, 1, 2})
    /\ [][\/ drop_count(count') = drop_count(count)
          \/ drop_count(count') = drop_count(count) + 1]_vars

\* C16 witness: both kinds have finished and the drop count stands at 2.
C16_Witness == drop_count(count) = 2 /\ AllIdle /\ notified.rx = 1

\* C17 as stated: a step that adds to the drop count ends with both the
\* write count and the read count at zero.
C17_BumpOnlyWhenBothZero ==
    [][drop_count(count') # drop_count(count)
         => (tx_count(count') = 0 /\ rx_count(count') = 0)]_vars

\* C17 amended: a step that adds to the drop count is taken with the
\* count of the acting thread's own kind at zero; the other kind's count
\* is zero too when the step is a decrement, and may be positive when it
\* is the inc_drop_count after a callback.
C17_BumpOnlyWhenOwnZero ==
    [][\A t \in Threads :
          (Acts(t) /\ drop_count(count') # drop_count(count)) =>
              /\ pc[t] \in {"dec_tx", "dec_rx", "tx_notify", "rx_notify"}
              /\ pc[t] \in {"dec_tx", "dec_rx"}
                 => (tx_count(count') = 0 /\ rx_count(count') = 0)
              /\ pc[t] = "tx_notify"
                 => (tx_count(count) = 0 /\ tx_count(count') = 0)
              /\ pc[t] = "rx_notify"
                 => (rx_count(count) = 0 /\ rx_count(count') = 0)
      ]_vars

\* C17 witness: the drop count was raised after the last-Tx-dropped
\* callback while Rx handles are owned.
C17_Witness ==
    /\ AllIdle
    /\ drop_count(count) = 1
    /\ tx_count(count) = 0
    /\ rx_count(count) >= 1
    /\ TotalRx >= 1

\* C18: the two callbacks are never in progress together.
C18_CallbacksExclusive ==
    Cardinality({t \in Threads : pc[t] \in InCallback}) <= 1

\* C18 witness: the last-Rx-dropped callback is running while the drop of
\* the last Tx is under way.
C18_Witness ==
    \E t \in Threads, u \in Threads :
        /\ pc[t] = "rx_notify"
        /\ pc[u] = "dec_tx"
        /\ tx_count(count) = 1

\* C19: the counter starts at write 1, read 1, drop count 0, and whenever
\* no overflowing clone stands between its add and its undo the write
\* count is the number of Tx handles that exist and the read count the
\* number of Rx handles that exist (a handle exists until the decrement
\* of its drop takes effect).
C19_CountsEqualHandles ==
    /\ count = RC_INIT
    /\ []((TransientTx = 0 /\ TransientRx = 0) =>
             (tx_count(count) = LiveTx /\ rx_count(count) = LiveRx))

\* C19 witness: two clones were made and one Tx drop is under way.
C19_Witness ==
    /\ clones >= 2
    /\ tx_count(count) = 2 /\ rx_count(count) = 2
    /\ InFlightTx = 1 /\ TotalTx = 1 /\ TotalRx = 2

\* The classification of the counter value c that a Tx / Rx decrement
\* replaces
TxClassOf(c) ==
    IF tx_count(c) # 1 THEN "Nothing"
    ELSE IF rx_count(c) # 0 THEN "Notify"
    ELSE IF drop_count(c) = 0 THEN "Nothing" ELSE "Drop"

RxClassOf(c) ==
    IF rx_count(c) # 1 THEN "Nothing"
    ELSE IF tx_count(c) # 0 THEN "Notify"
    ELSE IF drop_count(c) = 0 THEN "Nothing" ELSE "Drop"

\* C20: the action dec_tx / dec_rx returns is the classification of the
\* counter value its successful compare-exchange replaced, whatever the
\* failed attempts before it left in `action`.
C20_ActionNeverStale ==
    [][\A t \in Threads :
          /\ TxDecrements(t)
             => (action'[t] = TxClassOf(count)
                 /\ pc'[t] = TxMatch(TxClassOf(count)))
          /\ RxDecrements(t)
             => (action'[t] = RxClassOf(count)
                 /\ pc'[t] = RxMatch(RxClassOf(count)))
      ]_vars

\* C20 witness: a failed attempt of dec_tx left Notify in `action`, and the
\* value reloaded for the retry has the read count at zero.
C20_Witness ==
    \E t \in Threads :
        /\ pc[t] = "dec_tx"
        /\ action[t] = "Notify"
        /\ rx_count(prev[t]) = 0
        /\ count = prev[t]

\* A Tx / Rx decrement that takes the count of its kind from one to zero
TxReachesZero(t) == TxDecrements(t) /\ tx_count(count') = 0

RxReachesZero(t) == RxDecrements(t) /\ rx_count(count') = 0

\* C21: once the count of a kind is zero it is zero in every later state.
\* A count at zero has no handle of its kind left to clone from or to
\* drop, no step raises it, and the decrement that reaches zero starts
\* from one: for each kind at most one drop sees its count reach zero.
C21_ZeroStaysZero ==
    /\ [](/\ tx_count(count) = 0 => LiveTx = 0
          /\ rx_count(count) = 0 => LiveRx = 0)
    /\ [][/\ tx_count(count) = 0 => tx_count(count') = 0
          /\ rx_count(count) = 0 => rx_count(count') = 0
          /\ \A t \in Threads :
                /\ TxReachesZero(t) => tx_count(count) = 1
                /\ RxReachesZero(t) => rx_count(count) = 1
      ]_vars

\* C21 witness: the write count went to zero after a Tx clone had been
\* made and dropped, while two Rx handles live on and the Tx callback has
\* run.
C21_Witness ==
    /\ tx_count(count) = 0
    /\ rx_count(count) = 2
    /\ clones = MaxClones
    /\ notified.tx = 1
    /\ AllIdle

\* The ordinary callbacks that have run, given the pinned callbacks that
\* have: MustPin's pinned callbacks do the work themselves, the default
\* ones of TrackNotify each call the ordinary callback of their kind.
Delegated ==
    IF payload = "MustPin" THEN [tx |-> 0, rx |-> 0] ELSE notified

\* C22 as stated: handles from pin count as handles from new do, each
\* kind's last drop has invoked the pinned callback of its kind exactly
\* once when it is through, and the default pinned callback has called the
\* ordinary one.
C22_EveryLastDropInvokes ==
    /\ tx_count(count) = LiveTx /\ rx_count(count) = LiveRx
    /\ freed <= 1
    /\ notified.tx <= 1 /\ notified.rx <= 1
    /\ (AllIdle /\ tx_count(count) = 0) => notified.tx = 1
    /\ (AllIdle /\ rx_count(count) = 0) => notified.rx = 1
    /\ ordinary = Delegated

\* C22 amended: whichever entry point made the handles and whatever the
\* payload type, the counter counts the handles, a decrement is classified
\* by the value it replaces, one callback is invoked and the record is
\* deallocated once when every handle is dropped; the drop whose decrement
\* takes its kind to zero with the other count positive invokes the pinned
\* callback of its kind, exactly once, and the default pinned callback
\* calls the ordinary callback of its kind.
C22_PinnedSameMachine ==
    /\ [](/\ tx_count(count) = LiveTx /\ rx_count(count) = LiveRx
          /\ freed <= 1
          /\ notified.tx + notified.rx <= 1
          /\ AllDropped => (notified.tx + notified.rx = 1 /\ freed = 1)
          /\ ordinary = Delegated
          /\ \A t \in Threads :
                /\ pc[t] = "tx_notify" => notified.tx = 1
                /\ pc[t] = "rx_notify" => notified.rx = 1)
    /\ [][\A t \in Threads :
             /\ TxDecrements(t) => pc'[t] = TxMatch(TxClassOf(count))
             /\ RxDecrements(t) => pc'[t] = RxMatch(RxClassOf(count))
             /\ (TxReachesZero(t) /\ rx_count(count') > 0)
                => pc'[t] = "tx_call"
             /\ (RxReachesZero(t) /\ tx_count(count') > 0)
                => pc'[t] = "rx_call"
             /\ (pc[t] = "tx_call" /\ Acts(t))
                => (pc'[t] = "tx_notify" /\ notified'.tx = 1)
             /\ (pc[t] = "rx_call" /\ Acts(t))
                => (pc'[t] = "rx_notify" /\ notified'.rx = 1)
      ]_vars

\* C22 witness: the pair came from pin, a clone was made, every handle is
\* dropped, and the default pinned callback of TrackNotify has called
\* last_rx_did_drop.
C22_Witness ==
    /\ pinned
    /\ payload = "TrackNotify"
    /\ clones >= 1
    /\ AllDropped
    /\ notified.rx = 1 /\ ordinary.rx = 1
    /\ freed = 1

====
